---- MODULE Spec2Model ----
(***************************************************************************)
(* Model of the geometry optimiser (ipi/engine/geop.py) and of the socket  *)
(* force-field input (ipi/inputs/forcefields.py, src/utils/inputvalue.py). *)
(*                                                                         *)
(* Numbers.  The program computes with numpy float64 arrays.  The model    *)
(* computes exactly:                                                       *)
(*   - a rational is a pair <<p, q>>, q > 0, in lowest terms;              *)
(*   - a vector is a record [n, d, r, nan]: component i has the value      *)
(*     n[i] / (d * sqrt(r)), except the components listed in nan, which    *)
(*     are IEEE NaN (what 0/0 and every operation on a NaN give);          *)
(*     d = 0 stands for Python's None;                                     *)
(*   - a real scalar (a line-search displacement, the step estimate) is a  *)
(*     finite sum of terms c * sqrt(m), kept as the set of pairs <<m, c>>  *)
(*     with c a non-zero rational and m the squared norm the term comes    *)
(*     from; equal sets are equal reals.                                   *)
(***************************************************************************)
EXTENDS Integers, Sequences, FiniteSets, TLC

(***************************************************************************)
(* Bounds of the model.                                                    *)
(***************************************************************************)
\* number of calls of GeopMover.step in one run
MaxSteps == 2
\* a run is followed while the numerators and denominators it stores are at
\* most MaxNum
MaxNum == 100
\* the line search returns a displacement of 0..MaxDisp lattice units
MaxDisp == 2
\* callers that evaluate on one force component at a time
MaxCallers == 3
\* the largest slot count a Connection Pool is configured with here
MaxPoolSlots == 2
\* force fields fetched from an input object in one run
MaxFetch == 2

(***************************************************************************)
(* The system: two particles, one bead; beads.q has shape (1, 3*natoms).   *)
(***************************************************************************)
Atoms == {0, 1}
Size == 3 * Cardinality(Atoms)
Idx == 1..Size

(***************************************************************************)
(* Integer and rational arithmetic.                                        *)
(***************************************************************************)
Abs(a) == IF a < 0 THEN -a ELSE a

Sign(a) == IF a < 0 THEN -1 ELSE IF a > 0 THEN 1 ELSE 0

RECURSIVE GCD(_, _)
GCD(a, b) == IF b = 0 THEN Abs(a) ELSE GCD(b, a % Abs(b))

RECURSIVE SeqGCD(_, _, _)
SeqGCD(s, i, g) == IF i > Len(s) THEN g ELSE SeqGCD(s, i + 1, GCD(g, s[i]))

RECURSIVE SeqSum(_, _)
SeqSum(s, i) == IF i > Len(s) THEN 0 ELSE s[i] + SeqSum(s, i + 1)

Rat(p, q) ==
    LET g == GCD(p, q)
        s == IF q < 0 THEN -1 ELSE 1
    IN <<(s * p) \div g, (s * q) \div g>>

\* sums and products of rationals, cancelling before multiplying
RatAdd(a, b) ==
    LET g == GCD(a[2], b[2])
    IN Rat(a[1] * (b[2] \div g) + b[1] * (a[2] \div g), (a[2] \div g) * b[2])

RatMul(a, b) ==
    LET g == GCD(a[1], b[2])
        h == GCD(b[1], a[2])
    IN IF a[1] = 0 \/ b[1] = 0 THEN <<0, 1>>
       ELSE <<(a[1] \div g) * (b[1] \div h), (a[2] \div h) * (b[2] \div g)>>

RatZero == <<0, 1>>

RatOne == <<1, 1>>

(***************************************************************************)
(* Real scalars: sums of c * sqrt(m).                                      *)
(***************************************************************************)
RealZero == {}

\* c * sqrt(r), for a rational c and an integer r > 0
RealTerm(c, r) == IF c[1] = 0 THEN {} ELSE {<<r, c>>}

RealOfRat(c) == RealTerm(c, 1)

Coef(A, m) == IF \E t \in A : t[1] = m THEN (CHOOSE t \in A : t[1] = m)[2] ELSE RatZero

RealAdd(A, B) ==
    LET ms == {t[1] : t \in A \cup B}
    IN {<<m, RatAdd(Coef(A, m), Coef(B, m))>> :
            m \in {k \in ms : RatAdd(Coef(A, k), Coef(B, k))[1] # 0}}

RealScale(c, A) == IF c[1] = 0 THEN {} ELSE {<<t[1], RatMul(c, t[2])>> : t \in A}

(***************************************************************************)
(* Vectors.                                                                *)
(***************************************************************************)
Zeros(len) == [i \in 1..len |-> 0]

IntVec(s) == [n |-> s, d |-> 1, r |-> 1, nan |-> {}]

NoneVec == [n |-> <<>>, d |-> 0, r |-> 1, nan |-> {}]

IsNone(v) == v.d = 0

AllNaN(len) == [n |-> Zeros(len), d |-> 1, r |-> 1, nan |-> 1..len]

VSize(v) == Len(v.n)

HasNaN(v) == v.nan # {}

IsZeroVec(v) == v.nan = {} /\ \A i \in 1..VSize(v) : v.n[i] = 0

\* numerator of dot(v, v) of the finite components
NormSqNum(v) == SeqSum([i \in 1..VSize(v) |-> v.n[i] * v.n[i]], 1)

\* numerator of dot(a, b)
DotNum(a, b) == SeqSum([i \in 1..VSize(a) |-> a.n[i] * b.n[i]], 1)

\* the numbers of v are within the model's range
Fits(v) == v.d <= MaxNum /\ \A i \in 1..VSize(v) : Abs(v.n[i]) <= MaxNum

\* a rational vector num/den in lowest terms
RatVec(num, den, nan) ==
    LET g == SeqGCD(num, 1, den)
    IN [n |-> [i \in 1..Len(num) |-> num[i] \div g], d |-> den \div g, r |-> 1,
        nan |-> nan]

VAdd(a, b) ==
    LET g == GCD(a.d, b.d)
    IN RatVec([i \in 1..VSize(a) |->
                  IF i \in a.nan \cup b.nan THEN 0
                  ELSE a.n[i] * (b.d \div g) + b.n[i] * (a.d \div g)],
              (a.d \div g) * b.d, a.nan \cup b.nan)

\* c * v for a rational c; 0.0 * nan is nan
VScale(c, v) ==
    LET g == GCD(c[1], v.d)
        h == SeqGCD(v.n, 1, c[2])
    IN IF c[1] = 0 THEN [n |-> Zeros(VSize(v)), d |-> 1, r |-> 1, nan |-> v.nan]
       ELSE [n |-> [i \in 1..VSize(v) |-> (c[1] \div g) * (v.n[i] \div h)],
             d |-> (c[2] \div h) * (v.d \div g), r |-> 1, nan |-> v.nan]

VNeg(v) == [v EXCEPT !.n = [i \in 1..VSize(v) |-> -v.n[i]]]

VSub(a, b) == VAdd(a, VNeg(b))

\* dot(a, b) of two rational vectors without NaN
Dot(a, b) == Rat(DotNum(a, b), a.d * b.d)

(***************************************************************************)
(* Floating-point scalars that may be NaN or infinite (beta).              *)
(***************************************************************************)
FNum(c) == [k |-> "num", v |-> c]

FNaN == [k |-> "nan", v |-> RatZero]

FInf == [k |-> "inf", v |-> RatZero]

\* numpy float64 division num/den
FFits(x) == Abs(x.v[1]) <= MaxNum /\ x.v[2] <= MaxNum

FDiv(num, den) ==
    IF den[1] # 0 THEN FNum(RatMul(num, <<den[2], den[1]>>))
    ELSE IF num[1] = 0 THEN FNaN
    ELSE IF num[1] > 0 THEN FInf
    ELSE [k |-> "ninf", v |-> RatZero]

(***************************************************************************)
(* The driver: an anisotropic harmonic well, force = -K (q - Centre).      *)
(***************************************************************************)
Stiffness == <<1, 1, 1, 2, 2, 2>>

Centre == <<0, 0, 0, 0, 0, 0>>

\* forces.f at configuration q
ForceAt(q) ==
    RatVec([i \in Idx |-> IF i \in q.nan THEN 0
                          ELSE -Stiffness[i] * (q.n[i] - Centre[i] * q.d)],
           q.d, q.nan)

\* forces.pot at configuration q: sum K (q - Centre)^2 / 2
PotAt(q) ==
    IF HasNaN(q) THEN FNaN
    ELSE FNum(Rat(SeqSum([i \in Idx |->
                     Stiffness[i] * (q.n[i] - Centre[i] * q.d) * (q.n[i] - Centre[i] * q.d)], 1),
                  2 * q.d * q.d))

(***************************************************************************)
(* State.                                                                  *)
(***************************************************************************)
VARIABLES
    status,      \* "constructed", "bound", "failed" (bind raised ValueError),
                 \* "error" (step raised)
    mode,        \* GeopMover.mode
    fixatoms,    \* Mover.fixatoms: the indices of the fixed particles
    ls_step,     \* GeopMover.ls_options["step"]
    adaptive,    \* GeopMover.ls_options["adaptive"]
    tolerances,  \* GeopMover.tolerances
    cg_old_f,    \* GeopMover.cg_old_f
    cg_old_d,    \* GeopMover.cg_old_d
    invhessian,  \* GeopMover.invhessian: [dim, kind]
    lm,          \* GeopMover.lm: [bound, x0, d]
    bfgsm,       \* GeopMover.bfgsm: [bound, d]
    q,           \* beads.q
    simstep,     \* the step number the simulation passes to step()
    nsteps,      \* calls of step() made in this run
    q_init,      \* history: beads.q at bind
    q_prev,      \* history: beads.q before the last step
    last,        \* history: the local values of the last call of step()
    forces,      \* the derived values of beads.q: [valid, at, n]
    dforces,     \* the derived values of the movers' dbeads.q: [valid, at, n]
    dbeads,      \* the movers' dbeads.q, the copy of the beads made at bind
    ls_ref,      \* the dict GeopMover.ls_options refers to: "default" or "own"
    default_step,\* "step" in the default dict of __init__'s parameter ls_options
    inp,         \* an InputFFSocket: its attributes and fields, [value, explicit]
    inp_explicit,\* InputFFSocket._explicit
    ffout,       \* the outcome of the last call on the InputFFSocket
    interfaces,  \* the InterfaceSocket objects constructed so far, by number
    pslots,      \* Connection Pool: the configured slot count
    conn,        \* Connection Pool: each connection "closed", "idle" or "busy"
    serving,     \* Connection Pool: the key of the Request a connection serves
    caller,      \* Request Dispatcher: each caller of evaluate, [pc, key, conn, result]
    inflight,    \* Request Dispatcher: the content keys with a pending Request
    ens,         \* a RestartEnsemble: its flags, its attribute and its fields
    ensout       \* the outcome of the last call on the RestartEnsemble

geopvars == <<status, mode, fixatoms, ls_step, adaptive, tolerances, cg_old_f,
              cg_old_d, invhessian, lm, bfgsm, q, simstep, nsteps, q_init, q_prev,
              last, forces, dforces, dbeads, ls_ref, default_step>>

inputvars == <<inp, inp_explicit, ffout, interfaces>>

poolvars == <<pslots, conn, serving, caller, inflight>>

ensvars == <<ens, ensout>>

vars == <<geopvars, inputvars, poolvars, ensvars>>

(***************************************************************************)
(* GeopMover.__init__: the values a run can be constructed with.           *)
(***************************************************************************)
Modes == {"sd", "cg", "bfgs"}

FixChoices == {{}, {0}, {1}}

AdaptiveChoices == {<<0, 1>>, <<1, 2>>, <<1, 1>>}

\* persisted (cg_old_force, cg_old_direction): the defaults np.zeros(0), a pair
\* written by an earlier run, and vectors of another system's size
PersistedCG ==
    { <<IntVec(<<>>), IntVec(<<>>)>>,
      <<IntVec(<<-1, 0, 0, 0, -4, 0>>), IntVec(<<-1, 0, 0, 0, -4, 0>>)>>,
      <<IntVec(<<1, 2, 3>>), IntVec(<<>>)>>,
      <<IntVec(<<>>), IntVec(<<1, 2, 3>>)>>,
      <<IntVec(<<-1, 0, 0, 0, -4, 0>>), IntVec(<<1, 2, 3>>)>> }

\* persisted inverse Hessian, by its dimension: the default np.eye(0), one of
\* the system's size, one of another system's size
PersistedHessian ==
    { [dim |-> 0, kind |-> "persisted"],
      [dim |-> Size, kind |-> "persisted"],
      [dim |-> 3, kind |-> "persisted"] }

StartConfigs ==
    { IntVec(<<1, 0, 0, 0, 2, 0>>),
      IntVec(<<3, 0, 0, 2, 0, 0>>),
      IntVec(<<0, 0, 2, 0, 0, 0>>),
      IntVec(Centre) }

\* ls_options["step"] as constructed
InitStep == RealOfRat(<<1, 1000>>)

\* self.ls_options = ls_options, line 109: the mover keeps the dict it was
\* given, the one default object of the parameter when none was given
LsOptionsRef(ref) == ref

\* the dicts a mover is constructed with: the default one has "adaptive" 1.0;
\* bfgs never writes to the dict, so only the default is taken for it
LsOptionsGiven(m, a) ==
    IF m = "bfgs" THEN {LsOptionsRef("default")}
    ELSE IF a = RatOne THEN {LsOptionsRef("default"), LsOptionsRef("own")}
    ELSE {LsOptionsRef("own")}

NoLast ==
    [branch |-> "none", step |-> 0, gradf1 |-> NoneVec, gradf0 |-> NoneVec,
     dq0 |-> NoneVec, beta |-> FNaN, dq1 |-> NoneVec, unit |-> NoneVec,
     dq1_unit |-> NoneVec, d0 |-> NoneVec, hdim |-> 0, x |-> RealZero,
     init_step |-> RealZero, read_at |-> NoneVec, trials |-> <<>>,
     live_writes |-> 0]

\* the configuration x0 + d * x a mover assigns to its copy of the beads
TrialConf(x0, d, x) == [x0 |-> x0, d |-> d, x |-> x]

\* the configuration x0 itself
AtRest(x0) == TrialConf(x0, NoneVec, RealZero)

\* potential and forces of a configuration as derived values: valid or stale,
\* the configuration "at" they were last computed for, and the number n of
\* evaluations dispatched since the last call of step() began
StaleCache(conf) == [valid |-> FALSE, at |-> conf, n |-> 0]

ValidCache(conf) == [valid |-> TRUE, at |-> conf, n |-> 0]

\* what a mode never reads in step() is not varied beyond what bind looks at:
\* for bfgs the conjugate-gradient pair (sizes only) and the adaptivity
\* weight, for sd and cg the inverse Hessian
GeopInit ==
    /\ status = "constructed"
    /\ mode \in Modes
    /\ fixatoms \in FixChoices
    /\ ls_step = InitStep
    /\ adaptive \in (IF mode = "bfgs" THEN {RatOne} ELSE AdaptiveChoices)
    /\ tolerances = [energy |-> <<1, 1>>, force |-> <<2, 1>>, position |-> <<1, 1>>]
    /\ \E p \in PersistedCG :
          /\ mode = "bfgs" => VSize(p[1]) = VSize(p[2])
          /\ cg_old_f = p[1] /\ cg_old_d = p[2]
    /\ invhessian \in (IF mode = "bfgs" THEN PersistedHessian
                       ELSE {[dim |-> 0, kind |-> "persisted"]})
    /\ lm = [bound |-> FALSE, x0 |-> NoneVec, d |-> NoneVec]
    /\ bfgsm = [bound |-> FALSE, d |-> NoneVec]
    /\ q \in StartConfigs
    /\ simstep \in {0, 1}
    /\ nsteps = 0
    /\ q_init = q
    /\ q_prev = q
    /\ last = NoLast
    /\ forces \in {StaleCache(q), ValidCache(q)}
    /\ dforces = StaleCache(AtRest(q))
    /\ dbeads = AtRest(q)
    /\ ls_ref \in LsOptionsGiven(mode, adaptive)
    /\ default_step = InitStep

(***************************************************************************)
(* GeopMover.bind                                                          *)
(***************************************************************************)
\* a size check that accepts every vector (variant of BindVector)
AcceptVector(v) == [ok |-> TRUE, v |-> v]

\* one of the two size checks: "ok" with the vector to keep, or "raise"
BindVector(v) ==
    IF VSize(v) # Size
    THEN IF VSize(v) = 0 THEN [ok |-> TRUE, v |-> IntVec(Zeros(Size))]
         ELSE [ok |-> FALSE, v |-> v]
    ELSE [ok |-> TRUE, v |-> v]

bind ==
    /\ status = "constructed"
    /\ LET f == BindVector(cg_old_f)
           d == BindVector(cg_old_d)
       IN IF ~f.ok
          THEN /\ status' = "failed"
               /\ UNCHANGED <<cg_old_f, cg_old_d, lm, bfgsm>>
          ELSE IF ~d.ok
          THEN /\ status' = "failed"
               /\ cg_old_f' = f.v
               /\ UNCHANGED <<cg_old_d, lm, bfgsm>>
          ELSE /\ status' = "bound"
               /\ cg_old_f' = f.v
               /\ cg_old_d' = d.v
               /\ lm' = [lm EXCEPT !.bound = TRUE]
               /\ bfgsm' = [bfgsm EXCEPT !.bound = TRUE]
    /\ dbeads' = AtRest(q)
    /\ UNCHANGED <<ls_ref, default_step>>
    /\ UNCHANGED <<mode, fixatoms, ls_step, adaptive, tolerances, invhessian, q,
                   simstep, nsteps, q_init, q_prev, last, forces, dforces>>
    /\ UNCHANGED <<inputvars, poolvars, ensvars>>

(***************************************************************************)
(* The pieces of GeopMover.step                                            *)
(***************************************************************************)
\* v left at its own length (variant of Normalized)
Unnormalized(v) == [v EXCEPT !.r = 1]

\* v / np.sqrt(np.dot(v, v)): 0/0 and anything over a NaN norm are NaN
Normalized(v) ==
    IF HasNaN(v) \/ NormSqNum(v) = 0 THEN AllNaN(VSize(v))
    ELSE LET g == SeqGCD(v.n, 1, 0)
             u == [i \in 1..VSize(v) |-> v.n[i] \div g]
         IN [n |-> u, d |-> 1, r |-> SeqSum([i \in 1..Len(u) |-> u[i] * u[i]], 1),
             nan |-> {}]

\* beta = dot(gradf1 - gradf0, gradf1) / dot(gradf0, gradf0)
PolakRibiere(gradf1, gradf0) ==
    IF HasNaN(gradf1) \/ HasNaN(gradf0) THEN FNaN
    ELSE FDiv(Dot(VSub(gradf1, gradf0), gradf1), Dot(gradf0, gradf0))

\* beta passed on without the clamp (variant of ClampBeta)
UnclampedBeta(beta) == IF beta.k = "nan" THEN FNum(RatZero) ELSE beta

\* Python's max(0.0, beta): 0.0 unless beta > 0.0, so 0.0 for a NaN
ClampBeta(beta) ==
    IF beta.k = "inf" THEN FInf
    ELSE IF beta.k = "num" /\ beta.v[1] > 0 THEN beta
    ELSE FNum(RatZero)

\* the previous direction added with the opposite sign (variant of CGDirection)
CGDirectionReversed(gradf1, bc, dq0) ==
    IF bc.k # "num" THEN AllNaN(VSize(gradf1))
    ELSE VAdd(gradf1, VScale(<<-bc.v[1], bc.v[2]>>, dq0))

\* dq1 = gradf1 + max(0.0, beta) * dq0.  An infinite factor meets only dq0 = 0
\* (persisted vectors left empty), and inf * 0 is NaN.
CGDirection(gradf1, bc, dq0) ==
    IF bc.k = "inf" THEN AllNaN(VSize(gradf1))
    ELSE VAdd(gradf1, VScale(bc.v, dq0))

\* dqb[fixatoms*3] = dqb[fixatoms*3+1] = dqb[fixatoms*3+2] = 0.0
ZeroFixed(u, fix) ==
    LET fixed == {i \in 1..VSize(u) : ((i - 1) \div 3) \in fix}
    IN [u EXCEPT !.n = [i \in 1..VSize(u) |-> IF i \in fixed THEN 0 ELSE u.n[i]],
                 !.nan = u.nan \ fixed]

\* LineMover.set_dir
set_dir(x0, mdir) == [bound |-> TRUE, x0 |-> x0, d |-> Normalized(mdir)]

\* sqrt(dot(v, v)) as a real; 1 where the norm is 0 or NaN
Norm(v) ==
    IF HasNaN(v) \/ NormSqNum(v) = 0 THEN RealOfRat(RatOne)
    ELSE LET g == SeqGCD(v.n, 1, 0)
         IN RealTerm(<<g, v.d>>, Normalized(v).r)

\* min_brent: the displacements along the search direction it may return, here
\* the multiples t/2 (t in 0..MaxDisp) of the length len of the direction
\* before normalisation, which leave beads.q on the rational lattice
LineSearchResults(len) ==
    {RealScale(Rat(t, 2), len) : t \in 0..MaxDisp}

\* the estimate never adapted (variant of AdaptStep)
KeepStep(step, x, a) == step

\* ls_options["step"] = x * adaptive + (1 - adaptive) * ls_options["step"]
AdaptStep(step, x, a) ==
    RealAdd(RealScale(a, x), RealScale(RatAdd(RatOne, <<-a[1], a[2]>>), step))

\* x / (u.d * sqrt(u.r)) for a displacement x that is a multiple of sqrt(u.r)
DispFactor(u, x) == RatMul(Coef(x, u.r), <<1, u.d>>)

\* configuration + u * x
Displace(conf, u, x) ==
    VAdd(conf, VScale(DispFactor(u, x), [u EXCEPT !.d = 1]))

\* BFGS of ipi.utils.mintools: a line minimisation from x0 along d0, the secant
\* update of the inverse Hessian, and the next direction
BFGS(x0, d0, hess, x) ==
    LET x1 == Displace(x0, d0, x)
    IN [q |-> x1, d |-> ForceAt(x1),
        invhessian |-> [dim |-> hess.dim, kind |-> "updated"]]

(***************************************************************************)
(* Derived values: potential and forces are recomputed on a read when the  *)
(* configuration was written since they were last computed.                *)
(***************************************************************************)
\* a read of the potential or of the forces of configuration conf: a stale
\* value is recomputed for conf by one dispatched evaluation and marked valid
CacheGet(c, conf) ==
    IF c.valid THEN c ELSE [valid |-> TRUE, at |-> conf, n |-> c.n + 1]

\* a write to the configuration marks what depends on it stale
CacheTaint(c) == [c EXCEPT !.valid = FALSE]

\* beads.q assigned again between the reads (variant of StepReads)
StepReadsRewritten(c, conf) ==
    CacheGet(CacheTaint(CacheGet(CacheTaint(CacheGet(c, conf)), conf)), conf)

\* the reads of forces.f and forces.pot in one call of step(): lines 186 or
\* 201 and 218, lines 152 and 160 for bfgs
StepReads(c, conf) == CacheGet(CacheGet(CacheGet(c, conf), conf), conf)

\* the potential and the forces read before dbeads.q is assigned (variant of
\* LineMoverCall)
LineMoverCallReadFirst(c, x0, d, x) ==
    LET conf == TrialConf(x0, d, x)
        c1 == CacheGet(CacheGet(c, c.at), c.at)
    IN [c |-> CacheTaint(c1), written |-> conf, computed |-> c1.at]

\* LineMover.__call__: dbeads.q = x0 + d * x, then dforces.pot and dforces.f
LineMoverCall(c, x0, d, x) ==
    LET conf == TrialConf(x0, d, x)
        c1 == CacheGet(CacheGet(CacheTaint(c), conf), conf)
    IN [c |-> c1, written |-> conf, computed |-> c1.at]

\* BFGSMover.__call__: dbeads.q = x, then dforces.pot and dforces.f
BFGSMoverCall(c, x) == LineMoverCall(c, x, NoneVec, RealZero)

\* min_brent: the displacements at which it calls the mover, in turn
TrialSteps(len) == [k \in 1..MaxDisp |-> RealScale(Rat(k, 2), len)]

RECURSIVE LineTrials(_, _, _, _)
\* the calls of the mover at the displacements xs, from the derived values c
LineTrials(c, x0, d, xs) ==
    IF xs = <<>> THEN [c |-> c, trials |-> <<>>]
    ELSE LET r == LineMoverCall(c, x0, d, Head(xs))
             rest == LineTrials(r.c, x0, d, Tail(xs))
         IN [c |-> rest.c,
             trials |-> <<[written |-> r.written, computed |-> r.computed]>>
                        \o rest.trials]

\* the movers bound to the live beads themselves (variant of MoverBeads)
MoverBeadsShared == "beads"

\* LineMover.bind, BFGSMover.bind: self.dbeads = ens.beads.copy(), an object
\* of the mover's own
MoverBeads == "dbeads"

\* the assignments to the live beads.q in one call of step(): those of the
\* trials where the mover writes to the live beads, and the one that ends it
LiveWrites(ntrials) == (IF MoverBeads = "beads" THEN ntrials ELSE 0) + 1

(***************************************************************************)
(* GeopMover.step                                                          *)
(***************************************************************************)
\* the bfgs branch, lines 146-176
step_bfgs ==
    LET live == StepReads([forces EXCEPT !.n = 0], q)
        f == ForceAt(live.at)
        d0 == IF simstep = 0 THEN Normalized(f) ELSE bfgsm.d
        h0 == IF simstep = 0 THEN [dim |-> Size, kind |-> "eye"] ELSE invhessian
    IN /\ IF IsNone(d0) \/ h0.dim # Size
          THEN \* BFGS raises on a direction of None or an array of another shape
               /\ status' = "error"
               /\ last' = [NoLast EXCEPT !.branch = "bfgs", !.step = simstep,
                                         !.gradf1 = f, !.d0 = d0, !.hdim = h0.dim,
                                         !.read_at = live.at]
               /\ bfgsm' = [bfgsm EXCEPT !.d = d0]
               /\ invhessian' = h0
               /\ forces' = live
               /\ UNCHANGED <<q, q_prev, dforces, dbeads>>
          ELSE \E x \in LineSearchResults(IF simstep = 0 THEN Norm(f) ELSE RealOfRat(RatOne)) :
                  LET res == BFGS(q, d0, h0, x)
                      trial == BFGSMoverCall([dforces EXCEPT !.n = 0], res.q)
                  IN /\ Fits(res.q)
                     /\ forces' = CacheTaint(live)
                     /\ dforces' = trial.c
                     /\ dbeads' = IF MoverBeads = "dbeads" THEN trial.written
                                  ELSE dbeads
                     /\ status' = status
                     /\ q' = res.q
                     /\ bfgsm' = [bfgsm EXCEPT !.d = res.d]
                     /\ invhessian' = res.invhessian
                     /\ q_prev' = q
                     /\ last' = [NoLast EXCEPT !.branch = "bfgs", !.step = simstep,
                                               !.gradf1 = f, !.d0 = d0,
                                               !.hdim = h0.dim, !.x = x,
                                               !.read_at = live.at,
                                               !.live_writes = LiveWrites(1),
                                               !.trials =
                                                  <<[written |-> trial.written,
                                                     computed |-> trial.computed]>>]
       /\ UNCHANGED <<cg_old_f, cg_old_d, lm, ls_step>>

\* the previous force and direction kept as they were by a steepest-descent
\* step (variant of StoreForCG)
StoreOnCGOnly(sd, old, new) == IF sd THEN old ELSE new

\* self.cg_old_d[:] = dq1 and self.cg_old_f[:] = gradf1, lines 206-207, after
\* either branch of lines 180-204
StoreForCG(sd, old, new) == new

\* the steepest-descent and conjugate-gradient branch, lines 179-224
step_sdcg ==
    LET sd == (mode = "sd" \/ simstep = 0)
        live == StepReads([forces EXCEPT !.n = 0], q)
        gradf1 == ForceAt(live.at)
        gradf0 == cg_old_f
        dq0 == cg_old_d
        beta == PolakRibiere(gradf1, gradf0)
        dq1 == IF sd THEN gradf1 ELSE CGDirection(gradf1, ClampBeta(beta), dq0)
        unit == Normalized(dq1)
        dq1_unit == IF fixatoms # {} THEN ZeroFixed(unit, fixatoms) ELSE unit
        xs == TrialSteps(Norm(dq1))
        tried == LineTrials([dforces EXCEPT !.n = 0], q, set_dir(q, dq1_unit).d, xs)
        \* beads.q when the line search returns
        searched == IF MoverBeads = "dbeads" THEN q
                    ELSE Displace(q, set_dir(q, dq1_unit).d, xs[Len(xs)])
    IN /\ FFits(beta)
       /\ Fits(dq1)
       /\ \E x \in LineSearchResults(Norm(dq1)) :
          /\ Fits(Displace(searched, dq1_unit, x))
          /\ forces' = CacheTaint(live)
          /\ dforces' = tried.c
          /\ dbeads' = IF MoverBeads = "dbeads"
                       THEN tried.trials[Len(tried.trials)].written ELSE dbeads
          /\ cg_old_d' = StoreForCG(sd, cg_old_d, dq1)
          /\ cg_old_f' = StoreForCG(sd, cg_old_f, gradf1)
          /\ lm' = set_dir(q, dq1_unit)
          /\ ls_step' = AdaptStep(ls_step, x, adaptive)
          /\ q' = Displace(searched, dq1_unit, x)
          /\ q_prev' = q
          /\ last' = [NoLast EXCEPT !.branch = IF sd THEN "sd" ELSE "cg",
                                    !.step = simstep, !.gradf1 = gradf1,
                                    !.gradf0 = IF sd THEN NoneVec ELSE gradf0,
                                    !.dq0 = IF sd THEN NoneVec ELSE dq0,
                                    !.beta = IF sd THEN FNaN ELSE beta,
                                    !.dq1 = dq1, !.unit = unit,
                                    !.dq1_unit = dq1_unit,
                                    !.x = x, !.init_step = ls_step,
                                    !.read_at = live.at,
                                    !.live_writes = LiveWrites(Len(xs)),
                                    !.trials = tried.trials]
          /\ UNCHANGED <<status, bfgsm, invhessian>>

step ==
    /\ status = "bound"
    /\ nsteps < MaxSteps
    /\ IF mode = "bfgs" THEN step_bfgs ELSE step_sdcg
    /\ default_step' = IF ls_ref = "default" THEN ls_step' ELSE default_step
    /\ UNCHANGED ls_ref
    /\ simstep' = simstep + 1
    /\ nsteps' = nsteps + 1
    /\ UNCHANGED <<mode, fixatoms, adaptive, tolerances, q_init>>
    /\ UNCHANGED <<inputvars, poolvars, ensvars>>

(***************************************************************************)
(* InputFFSocket: the input object of a socket force field                 *)
(***************************************************************************)
\* the defaults of the fields "port" and "slots"
DefaultPort == 65535

DefaultSlots == 4

\* the limits InputFFSocket.check tests
MinPort == 1

MaxPort == 65535

MinSlots == 1

MaxSlots == 5

ModeOptions == {"unix", "inet"}

\* a default left marked as supplied by the user (variant of Field)
SuppliedField(v) == [value |-> v, explicit |-> TRUE]

\* Input.__init__ and InputValue.__init__: a value with a default is stored
\* and then marked not explicit; "name" has none
Field(v) == [value |-> v, explicit |-> FALSE]

\* "name" given a default like the other options (variant of Mandatory)
NothingMandatory == {}

\* the options declared without a default
Mandatory == {"name"}

\* a dict is the set of its <<key, value>> pairs
NoFF ==
    [type |-> "none", name |-> "", pbc |-> TRUE, latency |-> RatZero, pars |-> {},
     address |-> "", port |-> 0, slots |-> 0, timeout |-> RatZero, mode |-> "",
     interface |-> 0]

\* the record of a call: the method, how it ended, the object fetch returned,
\* the object store was handed, and for parse the names the xml node held and
\* the calls parse made in their order
Outcome(op, result) ==
    [op |-> op, result |-> result, obj |-> NoFF, arg |-> NoFF, given |-> {},
     events |-> <<>>]

NoOut == Outcome("none", "ok")

InputInit ==
    /\ inp = [name |-> Field(""), pbc |-> Field(TRUE), mode |-> Field("inet"),
              latency |-> Field(<<1, 100>>), pars |-> Field({}),
              address |-> Field("localhost"),
              port |-> Field(DefaultPort), slots |-> Field(DefaultSlots),
              timeout |-> Field(RatZero)]
    /\ inp_explicit = FALSE
    /\ ffout = NoOut
    /\ interfaces = 0

\* what an attribute or a tag of the xml node holds: given or not, and its value
Given(v) == [given |-> TRUE, v |-> v]

Absent(v) == [given |-> FALSE, v |-> v]

\* the declared attributes and fields an xml node is given here, in the order
\* the record of a parse lists them
AttribNames == <<"name", "mode">>

FieldNames == <<"port", "slots", "latency">>

\* the xml nodes parse() is handed.  "bogus" is an attribute and "extra" a tag
\* the input object does not declare; "text" is the reserved entry "_text".
XmlInputs ==
    [name : {Absent(""), Given("driver")},
     mode : {Absent(""), Given("unix"), Given("tcp")},
     port : {Absent(0), Given(MinPort - 1)},
     slots : {Absent(0), Given(MaxSlots + 1)},
     latency : {Absent(RatZero), Given(<<-1, 100>>)},
     bogus : {FALSE}, extra : {FALSE}, text : {FALSE}]
    \cup
    [name : {Absent(""), Given("driver")},
     mode : {Absent("")},
     port : {Absent(0), Given(MaxPort + 1)},
     slots : {Absent(0)},
     latency : {Absent(RatZero)},
     bogus : BOOLEAN, extra : BOOLEAN, text : BOOLEAN]

\* the force fields store() may be handed
StoredObjects ==
    { [type |-> "FFSocket", name |-> "driver", pbc |-> FALSE, latency |-> <<1, 10>>,
       pars |-> {<<"cutoff", "6">>},
       address |-> "host", port |-> 31415, slots |-> 2, timeout |-> <<3, 1>>,
       mode |-> "unix", interface |-> 0],
      [type |-> "FFSocket", name |-> "low", pbc |-> TRUE, latency |-> <<-1, 100>>,
       pars |-> {},
       address |-> "host", port |-> 0, slots |-> MaxSlots + 1, timeout |-> <<-1, 1>>,
       mode |-> "inet", interface |-> 0],
      [type |-> "ForceField", name |-> "plain", pbc |-> TRUE, latency |-> <<1, 100>>,
       pars |-> {},
       address |-> "", port |-> 0, slots |-> 0, timeout |-> RatZero, mode |-> "",
       interface |-> 0] }

\* InputValue.parse: the value read, the field marked explicit
ParseField(f, x) == IF x.given THEN [value |-> x.v, explicit |-> TRUE] ELSE f

\* InputValue.store
StoreField(v) == [value |-> v, explicit |-> TRUE]

\* Input.check and InputValue.check of one field: "ok" or "ValueError"
CheckField(fname, valid) ==
    IF ~(inp[fname].explicit \/ fname \notin Mandatory) THEN "ValueError"
    ELSE IF valid # {} /\ inp[fname].value \notin valid THEN "ValueError"
    ELSE "ok"

\* the names of S in the order of the sequence names
InOrder(names, S) == SelectSeq(names, LAMBDA n : n \in S)

\* Input.parse, lines 181-230.  The xml node's dictionaries are walked in an
\* order the code does not fix, so an undeclared name may be met after any
\* subset "before" of the declared ones.
\* adapt() called before the attributes are parsed (variant of ParseEvents)
AdaptFirst(attrs, flds, bogus, extra) ==
    <<"adapt">> \o InOrder(AttribNames, attrs)
    \o (IF bogus THEN <<"bogus">>
        ELSE InOrder(FieldNames, flds) \o (IF extra THEN <<"extra">> ELSE <<>>))

\* what Input.parse does with a node, in order (lines 205-221): it parses the
\* attributes attrs and raises at an undeclared one ("bogus"), else calls
\* adapt(), parses the fields flds and raises at an undeclared one ("extra")
ParseEvents(attrs, flds, bogus, extra) ==
    InOrder(AttribNames, attrs)
    \o (IF bogus THEN <<"bogus">>
        ELSE <<"adapt">> \o InOrder(FieldNames, flds)
             \o (IF extra THEN <<"extra">> ELSE <<>>))

\* undeclared names skipped the way "_text" is (variant of ParseResult)
ParseLenient(undeclared, parsed) ==
    IF \E m \in Mandatory : ~parsed[m].explicit THEN "ValueError" ELSE "ok"

\* how Input.parse ends: NameError at an undeclared attribute or tag (lines
\* 211, 221), else ValueError at a mandatory attribute or field that is not
\* explicit (lines 223-230), else a normal return
ParseResult(undeclared, parsed) ==
    IF undeclared THEN "NameError"
    ELSE IF \E m \in Mandatory : ~parsed[m].explicit THEN "ValueError"
    ELSE "ok"

ff_parse ==
    \E xml \in XmlInputs :
       LET A == {n \in {"name", "mode"} : xml[n].given}
           F == {n \in {"port", "slots", "latency"} : xml[n].given}
       IN \E before \in (IF xml.bogus THEN SUBSET A
                         ELSE IF xml.extra THEN SUBSET F ELSE {{}}) :
            LET attrs == IF xml.bogus THEN before ELSE A
                flds == IF xml.bogus THEN {} ELSE IF xml.extra THEN before ELSE F
                parsed == [n \in DOMAIN inp |->
                              IF n \in attrs \cup flds THEN ParseField(inp[n], xml[n])
                              ELSE inp[n]]
                result == ParseResult(xml.bogus \/ xml.extra, parsed)
                events == ParseEvents(attrs, flds, xml.bogus, xml.extra)
            IN /\ inp' = parsed
               /\ inp_explicit' = TRUE
               /\ UNCHANGED interfaces
               /\ ffout' = [Outcome("parse", result) EXCEPT
                               !.given = A \cup F
                                         \cup (IF xml.bogus THEN {"bogus"} ELSE {})
                                         \cup (IF xml.extra THEN {"extra"} ELSE {})
                                         \cup (IF xml.text THEN {"_text"} ELSE {}),
                               !.events = events]
               /\ UNCHANGED <<geopvars, poolvars, ensvars>>

\* InputFFSocket.store, lines 121-138, with InputForceField.store
ff_store ==
    \E ff \in StoredObjects :
       /\ IF ff.type # "FFSocket"
          THEN /\ ffout' = [Outcome("store", "TypeError") EXCEPT !.arg = ff]
               /\ UNCHANGED <<inp, inp_explicit>>
          ELSE /\ inp_explicit' = TRUE
               /\ inp' = [name |-> StoreField(ff.name), pbc |-> StoreField(ff.pbc),
                          mode |-> StoreField(ff.mode),
                          latency |-> StoreField(ff.latency),
                          pars |-> StoreField(ff.pars),
                          address |-> StoreField(ff.address),
                          port |-> StoreField(ff.port), slots |-> StoreField(ff.slots),
                          timeout |-> StoreField(ff.timeout)]
               /\ ffout' = [Outcome("store", "ok") EXCEPT !.arg = ff]
       /\ UNCHANGED interfaces
       /\ UNCHANGED <<geopvars, poolvars, ensvars>>

\* the FFSocket constructed without dopbc, which is then left at TRUE
\* (variant of FetchedObject)
FetchedWithoutPbc ==
    [type |-> "FFSocket", name |-> inp.name.value, pbc |-> TRUE,
     latency |-> inp.latency.value, pars |-> inp.pars.value,
     address |-> inp.address.value,
     port |-> inp.port.value, slots |-> inp.slots.value,
     timeout |-> inp.timeout.value, mode |-> inp.mode.value,
     interface |-> interfaces + 1]

\* the FFSocket given one interface kept by the input object (variant of
\* FetchedObject)
FetchedSharedInterface ==
    [type |-> "FFSocket", name |-> inp.name.value, pbc |-> inp.pbc.value,
     latency |-> inp.latency.value, pars |-> inp.pars.value,
     address |-> inp.address.value,
     port |-> inp.port.value, slots |-> inp.slots.value,
     timeout |-> inp.timeout.value, mode |-> inp.mode.value,
     interface |-> 1]

\* the FFSocket that InputFFSocket.fetch constructs from the fields' values,
\* with the InterfaceSocket constructed in the same call
FetchedObject ==
    [type |-> "FFSocket", name |-> inp.name.value, pbc |-> inp.pbc.value,
     latency |-> inp.latency.value, pars |-> inp.pars.value,
     address |-> inp.address.value,
     port |-> inp.port.value, slots |-> inp.slots.value,
     timeout |-> inp.timeout.value, mode |-> inp.mode.value,
     interface |-> interfaces + 1]

\* what the fetches of the fields raise, taken in the order of the call
FetchFields ==
    IF CheckField("name", {}) # "ok" THEN "ValueError"
    ELSE CheckField("mode", ModeOptions)

\* InputFFSocket.fetch, lines 140-149
ff_fetch ==
    /\ FetchFields = "ok" => interfaces < MaxFetch
    /\ ffout' = [Outcome("fetch", FetchFields) EXCEPT
                    !.obj = IF FetchFields = "ok" THEN FetchedObject ELSE NoFF]
    /\ interfaces' = IF FetchFields = "ok" THEN interfaces + 1 ELSE interfaces
    /\ UNCHANGED <<inp, inp_explicit>>
    /\ UNCHANGED <<geopvars, poolvars, ensvars>>

\* the four range tests of InputFFSocket.check
RangeCheck ==
    IF inp.port.value < MinPort \/ inp.port.value > MaxPort THEN "ValueError"
    ELSE IF inp.slots.value < MinSlots \/ inp.slots.value > MaxSlots THEN "ValueError"
    ELSE IF inp.latency.value[1] < 0 THEN "ValueError"
    ELSE IF inp.timeout.value[1] < 0 THEN "ValueError"
    ELSE "ok"

\* InputFFSocket.check, lines 152-166, after Input.check
ff_check ==
    /\ ffout' = Outcome("check", IF ~inp_explicit THEN "ValueError" ELSE RangeCheck)
    /\ UNCHANGED <<inp, inp_explicit, interfaces>>
    /\ UNCHANGED <<geopvars, poolvars, ensvars>>

(***************************************************************************)
(* The Connection Pool and the Request Dispatcher of one force component   *)
(***************************************************************************)
PoolCallers == 1..MaxCallers

PoolKeys == {"a", "b", "c"}

Connections == 1..MaxPoolSlots

NoCall == [pc |-> "idle", key |-> "", conn |-> 0, result |-> "none"]

\* a pool with no driver connected and no caller
PoolEmpty ==
    /\ conn = [i \in Connections |-> "closed"]
    /\ serving = [i \in Connections |-> ""]
    /\ caller = [c \in PoolCallers |-> NoCall]
    /\ inflight = {}

PoolInit == pslots \in 1..MaxPoolSlots /\ PoolEmpty

PoolIdle == pslots = 1 /\ PoolEmpty

Busy == {i \in Connections : conn[i] = "busy"}

\* a driver accepted whatever the slot count (variant of CanAccept)
AcceptAlways == TRUE

\* a new connection can be accepted up to the slot limit
CanAccept == Cardinality({i \in Connections : conn[i] # "closed"}) < pslots

\* a driver connects and is given a free slot
pool_accept ==
    \E i \in Connections :
       /\ conn[i] = "closed"
       /\ CanAccept
       /\ conn' = [conn EXCEPT ![i] = "idle"]
       /\ UNCHANGED <<pslots, serving, caller, inflight>>
       /\ UNCHANGED <<geopvars, inputvars, ensvars>>

\* every call issues a Request of its own (variant of InFlight)
NeverInFlight(k) == FALSE

\* an identical key is already in flight
InFlight(k) == k \in inflight

\* evaluate(configuration, periodicity), up to acquire(): the caller attaches
\* to the pending Result of its key or sets out to acquire a Connection
pool_evaluate ==
    \E c \in PoolCallers, k \in PoolKeys :
       /\ caller[c].pc = "idle"
       /\ IF InFlight(k)
          THEN /\ caller' = [caller EXCEPT ![c] = [NoCall EXCEPT !.pc = "attached", !.key = k]]
               /\ UNCHANGED inflight
          ELSE /\ caller' = [caller EXCEPT ![c] = [NoCall EXCEPT !.pc = "acquiring", !.key = k]]
               /\ inflight' = inflight \cup {k}
       /\ UNCHANGED <<pslots, conn, serving>>
       /\ UNCHANGED <<geopvars, inputvars, ensvars>>

\* acquire() returns an idle connection as an exclusive handle and the
\* Request is sent on it; with no idle connection the caller waits
pool_acquire ==
    \E c \in PoolCallers, i \in Connections :
       /\ caller[c].pc = "acquiring"
       /\ conn[i] = "idle"
       /\ conn' = [conn EXCEPT ![i] = "busy"]
       /\ serving' = [serving EXCEPT ![i] = caller[c].key]
       /\ caller' = [caller EXCEPT ![c].pc = "awaiting", ![c].conn = i]
       /\ UNCHANGED <<pslots, inflight>>
       /\ UNCHANGED <<geopvars, inputvars, ensvars>>

\* the Request on connection i resolves: its caller and those attached to it
\* return with the result
Resolve(i, result) ==
    /\ caller' = [c \in PoolCallers |->
                    IF caller[c].key = serving[i] /\ caller[c].pc \in {"awaiting", "attached"}
                    THEN [NoCall EXCEPT !.result = result] ELSE caller[c]]
    /\ inflight' = inflight \ {serving[i]}
    /\ serving' = [serving EXCEPT ![i] = ""]

\* the driver answers: the Result is delivered, release(handle)
pool_complete ==
    \E i \in Busy :
       /\ Resolve(i, "ok")
       /\ conn' = [conn EXCEPT ![i] = "idle"]
       /\ UNCHANGED pslots
       /\ UNCHANGED <<geopvars, inputvars, ensvars>>

\* no response within the timeout, or a transport error: the connection is
\* dead, closed, and its slot freed; the Request is reported as Failure
pool_timeout ==
    \E i \in Busy :
       /\ Resolve(i, "Failure")
       /\ conn' = [conn EXCEPT ![i] = "closed"]
       /\ UNCHANGED pslots
       /\ UNCHANGED <<geopvars, inputvars, ensvars>>

(***************************************************************************)
(* RestartEnsemble: the input object of an ensemble                        *)
(***************************************************************************)
\* the options of the attribute "type"
EnsembleOptions == {"nve", "nvt", "npt", "nst"}

\* a RestartBaro as RestartEnsemble.check reads it: its own _explicit, that
\* of its thermostat, and its kind
DefaultBaro == [explicit |-> FALSE, thermostat_explicit |-> FALSE, kind |-> "rigid"]

\* UnitMap[dimension][units]: the factor between a unit and the internal one,
\* 1 for the units "", a rational in place of the factor of the femtosecond
\* and of the kelvin
UnitFactor(dimension, units) ==
    CASE dimension = "time" /\ units = "femtosecond" -> <<41, 1>>
      [] dimension = "temperature" /\ units = "kelvin" -> <<1, 3>>
      [] OTHER -> RatOne

\* an InputValue with a dimension, constructed: its default, not explicit, in
\* the units ""
UnitField(v) == [value |-> v, explicit |-> FALSE, units |-> ""]

\* InputValue.parse, lines 461-477: the value as written, and its units
ParseValue(f, x) ==
    IF x.given THEN [value |-> x.v.value, explicit |-> TRUE, units |-> x.v.units]
    ELSE f

\* InputValue.store, lines 406-416: the value divided by the factor of the
\* units of the field
StoreValue(f, dimension, v) ==
    [f EXCEPT !.value = RatMul(v, LET u == UnitFactor(dimension, f.units)
                                  IN <<u[2], u[1]>>),
              !.explicit = TRUE]

\* InputValue.fetch, lines 418-425: the value times the factor of the units
FetchValue(f, dimension) == RatMul(f.value, UnitFactor(dimension, f.units))

NoEnsemble ==
    [type |-> "none", kind |-> "rigid", dt |-> RatZero, temp |-> RatZero,
     fixcom |-> FALSE]

EnsOutcome(op, result) ==
    [op |-> op, result |-> result, obj |-> NoEnsemble, arg |-> NoEnsemble]

\* RestartEnsemble.__init__: nothing explicit, type "nve", the thermostat and
\* the barostat at their defaults; the object itself with or without a default
EnsInit ==
    /\ ens \in [explicit : {FALSE}, optional : BOOLEAN,
                 type : {Field("nve")}, thermostat : {[explicit |-> FALSE]},
                 barostat : {DefaultBaro},
                 timestep : {UnitField(RatOne)}, temperature : {UnitField(RatOne)},
                 fixcom : {Field(FALSE)}]
    /\ ensout = EnsOutcome("none", "ok")

EnsIdle ==
    /\ ens = [explicit |-> FALSE, optional |-> TRUE, type |-> Field("nve"),
              thermostat |-> [explicit |-> FALSE], barostat |-> DefaultBaro,
              timestep |-> UnitField(RatOne), temperature |-> UnitField(RatOne),
              fixcom |-> Field(FALSE)]
    /\ ensout = EnsOutcome("none", "ok")

\* the tags timestep, temperature and fixcom of the nodes parsed: none of
\* them, the first two with their units, or the third
EnsXmlValues ==
    { [timestep |-> Absent(UnitField(RatOne)),
       temperature |-> Absent(UnitField(RatOne)), fixcom |-> Absent(FALSE)],
      [timestep |-> Given([value |-> <<4, 1>>, units |-> "femtosecond"]),
       temperature |-> Given([value |-> <<100, 1>>, units |-> "kelvin"]),
       fixcom |-> Absent(FALSE)],
      [timestep |-> Absent(UnitField(RatOne)),
       temperature |-> Absent(UnitField(RatOne)), fixcom |-> Given(TRUE)] }

\* the <ensemble> nodes parsed: the attribute type, the tag thermostat, the
\* tag barostat with or without a thermostat of its own and with its kind,
\* and the tags of the values
EnsXmlInputs ==
    [type : {Absent("")} \cup {Given(t) : t \in EnsembleOptions \cup {"nvx"}},
     thermostat : BOOLEAN,
     barostat : {Absent(DefaultBaro)}
                \cup {Given([explicit |-> TRUE, thermostat_explicit |-> t, kind |-> k]) :
                         t \in BOOLEAN, k \in {"rigid", "flexible"}},
     values : EnsXmlValues]

\* Input.parse on a RestartEnsemble: every attribute and field has a default
ens_parse ==
    \E xml \in EnsXmlInputs :
       /\ ens' = [ens EXCEPT
                    !.explicit = TRUE,
                    !.type = ParseField(ens.type, xml.type),
                    !.thermostat = [explicit |-> ens.thermostat.explicit \/ xml.thermostat],
                    !.barostat = IF xml.barostat.given THEN xml.barostat.v
                                 ELSE ens.barostat,
                    !.timestep = ParseValue(ens.timestep, xml.values.timestep),
                    !.temperature = ParseValue(ens.temperature, xml.values.temperature),
                    !.fixcom = ParseField(ens.fixcom, xml.values.fixcom)]
       /\ ensout' = EnsOutcome("parse", "ok")
       /\ UNCHANGED <<geopvars, inputvars, poolvars>>

\* ens.dt and ens.temp of the ensembles stored, neither at its default
StoredTimestep == <<2, 1>>

StoredTemperature == <<300, 1>>

\* the ensembles stored: of each of the four classes, those with a barostat
\* holding a rigid or a flexible one, with the centre of mass fixed or not
EnsembleObjects ==
    [type : {"NVE", "NVT"}, kind : {"rigid"}, dt : {StoredTimestep},
     temp : {StoredTemperature}, fixcom : BOOLEAN]
    \cup [type : {"NPT", "NST"}, kind : {"rigid", "flexible"},
           dt : {StoredTimestep}, temp : {StoredTemperature}, fixcom : BOOLEAN]

\* "nve" < "nvt" < "npt" < "nst": the local tens of store
Tens(e) == CASE e.type = "NVE" -> 0 [] e.type = "NVT" -> 1
             [] e.type = "NPT" -> 2 [] e.type = "NST" -> 3

Lower(t) == CASE t = "NVE" -> "nve" [] t = "NVT" -> "nvt"
              [] t = "NPT" -> "npt" [] t = "NST" -> "nst"

\* str.upper() of the values the attribute type is given here
Upper(t) == CASE t = "nve" -> "NVE" [] t = "nvt" -> "NVT"
              [] t = "npt" -> "NPT" [] t = "nst" -> "NST" [] OTHER -> "NVX"

\* RestartEnsemble.store, lines 72-100
ens_store ==
    \E e \in EnsembleObjects :
       /\ ens' = [ens EXCEPT
                    !.explicit = TRUE,
                    !.type = StoreField(Lower(e.type)),
                    !.thermostat = [explicit |-> ens.thermostat.explicit \/ Tens(e) > 0],
                    !.barostat = IF Tens(e) > 1
                                 THEN [explicit |-> TRUE, thermostat_explicit |-> TRUE,
                                       kind |-> e.kind]
                                 ELSE ens.barostat,
                    !.timestep = StoreValue(ens.timestep, "time", e.dt),
                    !.temperature = StoreValue(ens.temperature, "temperature", e.temp),
                    !.fixcom = IF Tens(e) > 0 THEN StoreField(e.fixcom)
                               ELSE ens.fixcom]
       /\ ensout' = [EnsOutcome("store", "ok") EXCEPT !.arg = e]
       /\ UNCHANGED <<geopvars, inputvars, poolvars>>

\* the requirements of NPT and NST left at those of NVT (variant of EnsCheck)
EnsCheckThermostatOnly(e) ==
    IF ~(e.explicit \/ e.optional) THEN "ValueError"
    ELSE IF e.type.value \notin EnsembleOptions THEN "ValueError"
    ELSE IF Upper(e.type.value) # "NVE" /\ ~e.thermostat.explicit THEN "ValueError"
    ELSE "ok"

\* RestartEnsemble.check, lines 126-152, after Input.check and the check of
\* the options in type.fetch()
EnsCheck(e) ==
    LET T == Upper(e.type.value)
    IN IF ~(e.explicit \/ e.optional) THEN "ValueError"
       ELSE IF e.type.value \notin EnsembleOptions THEN "ValueError"
       ELSE IF T = "NVT" /\ ~e.thermostat.explicit THEN "ValueError"
       ELSE IF T \in {"NPT", "NST"}
               /\ ~(/\ e.thermostat.explicit /\ e.barostat.explicit
                    /\ e.barostat.thermostat_explicit)
       THEN "ValueError"
       ELSE IF T = "NST" /\ e.barostat.kind = "rigid" THEN "ValueError"
       ELSE "ok"

\* RestartEnsemble.fetch, lines 102-124: the check of Input.fetch, then the
\* ensemble of the class the type names
ens_fetch ==
    /\ ensout' = [EnsOutcome("fetch", EnsCheck(ens)) EXCEPT
                     !.obj = IF EnsCheck(ens) = "ok"
                             THEN [type |-> Upper(ens.type.value),
                                   kind |-> ens.barostat.kind,
                                   dt |-> FetchValue(ens.timestep, "time"),
                                   temp |-> FetchValue(ens.temperature, "temperature"),
                                   fixcom |-> ens.fixcom.value]
                             ELSE NoEnsemble]
    /\ UNCHANGED ens
    /\ UNCHANGED <<geopvars, inputvars, poolvars>>

(***************************************************************************)
(* The specifications: a run of the optimiser, the life of an input        *)
(* object, the callers of one force component, and the life of an ensemble *)
(* input object                                                            *)
(***************************************************************************)
Init == GeopInit /\ InputInit /\ PoolIdle /\ EnsIdle

Next == bind \/ step

Spec == Init /\ [][Next]_vars

\* an optimiser constructed with its defaults and left alone
GeopIdle ==
    /\ status = "constructed" /\ mode = "sd" /\ fixatoms = {}
    /\ ls_step = InitStep /\ adaptive = RatOne
    /\ tolerances = [energy |-> <<1, 1>>, force |-> <<2, 1>>, position |-> <<1, 1>>]
    /\ cg_old_f = IntVec(<<>>) /\ cg_old_d = IntVec(<<>>)
    /\ invhessian = [dim |-> 0, kind |-> "persisted"]
    /\ lm = [bound |-> FALSE, x0 |-> NoneVec, d |-> NoneVec]
    /\ bfgsm = [bound |-> FALSE, d |-> NoneVec]
    /\ q = IntVec(<<1, 0, 0, 0, 2, 0>>) /\ simstep = 0 /\ nsteps = 0
    /\ q_init = q /\ q_prev = q /\ last = NoLast
    /\ forces = StaleCache(q) /\ dforces = StaleCache(AtRest(q))
    /\ dbeads = AtRest(q)
    /\ ls_ref = "default" /\ default_step = InitStep

InitFF == GeopIdle /\ InputInit /\ PoolIdle /\ EnsIdle

NextFF == ff_parse \/ ff_store \/ ff_fetch \/ ff_check

SpecFF == InitFF /\ [][NextFF]_vars

InitPool == GeopIdle /\ InputInit /\ PoolInit /\ EnsIdle

NextPool ==
    pool_accept \/ pool_evaluate \/ pool_acquire \/ pool_complete \/ pool_timeout

SpecPool == InitPool /\ [][NextPool]_vars

InitEns == GeopIdle /\ InputInit /\ PoolIdle /\ EnsInit

NextEns == ens_parse \/ ens_store \/ ens_fetch

SpecEns == InitEns /\ [][NextEns]_vars

(***************************************************************************)
(* Properties of GeopMover                                                 *)
(***************************************************************************)
AtomOf(i) == (i - 1) \div 3

FixedIdx == {i \in Idx : AtomOf(i) \in fixatoms}

\* u is v divided by its Euclidean norm: of unit length, parallel to v and
\* pointing the same way; all NaN where v is zero or holds a NaN
IsUnitOf(u, v) ==
    IF HasNaN(v) \/ NormSqNum(v) = 0 THEN u.nan = 1..VSize(v)
    ELSE /\ u.nan = {}
         /\ u.d = 1
         /\ u.r = NormSqNum(u)
         /\ \A i, j \in 1..VSize(v) : u.n[i] * v.n[j] = u.n[j] * v.n[i]
         /\ \A i \in 1..VSize(v) : Sign(u.n[i]) = Sign(v.n[i])

\* two rational vectors hold the same numbers
VEq(a, b) ==
    /\ VSize(a) = VSize(b)
    /\ a.nan = b.nan
    /\ \A i \in 1..VSize(a) : i \in a.nan \/ a.n[i] * b.d = b.n[i] * a.d

\* u is w with the components of the fixed particles set to zero
IsZeroFixedOf(u, w) ==
    /\ u.d = w.d /\ u.r = w.r
    /\ u.nan = w.nan \ FixedIdx
    /\ \A i \in Idx : u.n[i] = IF i \in FixedIdx THEN 0 ELSE w.n[i]

\* the direction the last call of step() searched and displaced along
UsedDirection == IF last.branch = "bfgs" THEN last.d0 ELSE last.dq1_unit

FirstStepDone == last.step = 0 /\ last.branch # "none"

SdCgStep == nsteps' = nsteps + 1 /\ mode # "bfgs"

\* C2: a conjugate-gradient step after the first sets the direction to
\* gradient + max(0, beta) * previous_direction with
\* beta = dot(gradient - previous_gradient, gradient) /
\* dot(previous_gradient, previous_gradient), reading the gradient and the
\* direction the preceding step persisted; every sd/cg step persists its own.
C2CGDirection ==
    [][SdCgStep =>
         LET g1 == ForceAt(q)
             g0 == cg_old_f
             d0 == cg_old_d
             dq1 == cg_old_d'
             den == Dot(g0, g0)
             num == Dot(VSub(g1, g0), g1)
             pos == IF num[1] > 0 THEN num ELSE RatZero
         IN /\ VEq(cg_old_f', g1)
            /\ last'.dq1 = dq1
            /\ (mode = "cg" /\ simstep # 0) =>
                 IF HasNaN(g1) \/ HasNaN(g0) \/ (den[1] = 0 /\ num[1] <= 0)
                 THEN VEq(dq1, VAdd(g1, VScale(RatZero, d0)))
                 ELSE IF den[1] = 0 THEN dq1.nan = Idx
                 ELSE VEq(VScale(den, dq1),
                          VAdd(VScale(den, g1), VScale(pos, d0)))]_vars

\* a second step in cg mode with beta > 0 and a previous direction to add
C2Witness ==
    /\ nsteps = 2 /\ last.branch = "cg"
    /\ last.beta.k = "num" /\ last.beta.v[1] > 0
    /\ ~IsZeroVec(last.dq0) /\ ~HasNaN(last.dq0)
    /\ cg_old_d = last.dq1 /\ ~VEq(last.dq1, last.gradf1)

\* beta of the last step, from its two gradients, is a number <= 0
BetaNotPositive ==
    /\ ~HasNaN(last.gradf1) /\ ~HasNaN(last.gradf0)
    /\ Dot(last.gradf0, last.gradf0)[1] > 0
    /\ Dot(VSub(last.gradf1, last.gradf0), last.gradf1)[1] <= 0

\* C3: when the Polak-Ribiere beta of a conjugate-gradient step is zero or
\* negative, the unit direction of the step is the one a steepest-descent
\* step takes from the same configuration: force / |force|.
C3ClampedIsSD ==
    (last.branch = "cg" /\ BetaNotPositive) =>
        /\ IsUnitOf(last.unit, ForceAt(q_prev))
        /\ IsZeroFixedOf(last.dq1_unit, IF fixatoms = {} THEN last.dq1_unit ELSE last.unit)

\* a cg step with a negative beta and a previous direction not along the force
C3Witness ==
    /\ last.branch = "cg" /\ BetaNotPositive
    /\ Dot(VSub(last.gradf1, last.gradf0), last.gradf1)[1] < 0
    /\ ~IsZeroVec(last.gradf1)
    /\ \E i, j \in Idx : last.dq0.n[i] * last.gradf1.n[j] # last.dq0.n[j] * last.gradf1.n[i]

\* C4 (as stated): in an sd or cg step with fixed atoms the direction used to
\* displace the configuration has unit norm and is zero on the fixed
\* particles (their components being zeroed before the normalisation).
C4UnitAndFixedZero ==
    (last.branch \in {"sd", "cg"} /\ fixatoms # {} /\ ~HasNaN(last.dq1_unit)) =>
        /\ last.dq1_unit.d * last.dq1_unit.d * last.dq1_unit.r = NormSqNum(last.dq1_unit)
        /\ \A i \in FixedIdx : last.dq1_unit.n[i] = 0

\* C5 (as stated): in every mode and after any number of steps the
\* coordinates of the particles in fixatoms are those before the first step.
C5FixedStay ==
    \A i \in FixedIdx : i \notin q.nan /\ q.n[i] * q_init.d = q_init.n[i] * q.d

OneMinus(a) == RatAdd(RatOne, <<-a[1], a[2]>>)

\* C6: a line-search step that returns x leaves the step estimate at
\* adaptive * x + (1 - adaptive) * previous estimate: x when adaptive is 1,
\* the constructed estimate for ever when adaptive is 0; and the estimate a
\* step hands to the line search is the one the preceding step left.
C6StepEstimate ==
    [][SdCgStep =>
         LET x == last'.x
         IN /\ last'.init_step = ls_step
            /\ ls_step' = RealAdd(RealScale(adaptive, x),
                                  RealScale(OneMinus(adaptive), ls_step))
            /\ adaptive = RatOne => ls_step' = x
            /\ adaptive = RatZero => ls_step' = ls_step /\ ls_step' = InitStep]_vars

\* two steps with adaptive = 1/2 and non-zero displacements
C6Witness ==
    /\ nsteps = 2 /\ last.branch \in {"sd", "cg"} /\ adaptive = <<1, 2>>
    /\ last.x # RealZero /\ last.init_step # InitStep
    /\ ls_step # last.x /\ ls_step # last.init_step

WrongSize(v) == VSize(v) # 0 /\ VSize(v) # Size

BindCall == status = "constructed" /\ status' # "constructed"

\* C7: bind raises ValueError exactly when a persisted previous force or
\* previous direction is non-empty and of another size than the
\* configuration, and then neither line-search object is bound, then or later;
\* where bind succeeds, a persisted vector that was empty is a zero vector of
\* the configuration's size.
C7BindSizes ==
    [][/\ BindCall =>
            /\ status' = "failed" <=> (WrongSize(cg_old_f) \/ WrongSize(cg_old_d))
            /\ status' # "failed" =>
                 /\ status' = "bound" /\ lm'.bound /\ bfgsm'.bound
                 /\ VSize(cg_old_f') = Size /\ VSize(cg_old_d') = Size
                 /\ VSize(cg_old_f) = 0 => IsZeroVec(cg_old_f')
                 /\ VSize(cg_old_d) = 0 => IsZeroVec(cg_old_d')
                 /\ VSize(cg_old_f) = Size => cg_old_f' = cg_old_f
                 /\ VSize(cg_old_d) = Size => cg_old_d' = cg_old_d
       /\ status' = "failed" => ~lm'.bound /\ ~bfgsm'.bound]_vars

\* a failed bind on the direction, the empty force already replaced by zeros
C7Witness ==
    /\ status = "failed" /\ WrongSize(cg_old_d)
    /\ VSize(cg_old_f) = Size /\ IsZeroVec(cg_old_f)
    /\ ~lm.bound /\ ~bfgsm.bound

\* C8 (as stated): a persisted inverse Hessian of another dimension than the
\* configuration is rejected before any step uses it, also in a run resumed
\* at a step number greater than 0.
C8HessianRejected ==
    /\ (mode = "bfgs" /\ invhessian.kind = "persisted"
           /\ invhessian.dim # Size /\ invhessian.dim # 0)
           => status \in {"constructed", "failed"}
    /\ last.branch = "bfgs" => last.hdim = Size

AbsRat(a) == <<Abs(a[1]), a[2]>>

RatLeq(a, b) == a[1] * b[2] <= b[1] * a[2]

\* the squared norm of a rational vector
NormSq(v) == Rat(NormSqNum(v), v.d * v.d)

\* gradient norm, energy change and displacement of the last step are all
\* within the tolerances given at construction
TolerancesMet ==
    /\ ~HasNaN(q) /\ ~HasNaN(q_prev)
    /\ RatLeq(NormSq(ForceAt(q)), RatMul(tolerances.force, tolerances.force))
    /\ RatLeq(AbsRat(RatAdd(PotAt(q).v, <<-PotAt(q_prev).v[1], PotAt(q_prev).v[2]>>)),
              tolerances.energy)
    /\ RatLeq(NormSq(VSub(q, q_prev)), RatMul(tolerances.position, tolerances.position))

\* C9 (as stated): once a step leaves all the tolerances given at construction
\* satisfied the engine is in state CONVERGED.
C9Converged == (nsteps > 0 /\ last.branch # "none" /\ TolerancesMet) => status = "converged"

(***************************************************************************)
(* Properties of InputFFSocket                                             *)
(***************************************************************************)
OutOfRange ==
    \/ inp.port.value < 1 \/ inp.port.value > 65535
    \/ inp.slots.value < 1 \/ inp.slots.value > 5
    \/ inp.latency.value[1] < 0
    \/ inp.timeout.value[1] < 0

\* C10 (as stated): fetch raises ValueError whenever port is outside 1..65535,
\* slots is outside 1..5, latency is negative or timeout is negative, and no
\* socket force field is constructed from such values.
C10FetchRejects ==
    (ffout.op = "fetch" /\ OutOfRange) =>
        ffout.result = "ValueError" /\ ffout.obj.type # "FFSocket"

OptionNames == {"pbc", "latency", "pars", "address", "port", "slots", "timeout", "mode"}

DocumentedDefaults ==
    [pbc |-> TRUE, latency |-> <<1, 100>>, pars |-> {}, address |-> "localhost",
     port |-> 65535, slots |-> 4, timeout |-> <<0, 1>>, mode |-> "inet"]

Fetched == ffout.op = "fetch" /\ ffout.result = "ok"

\* C11: an option never stored or parsed holds its default (pbc true, latency
\* 0.01, pars empty, address "localhost", port 65535, slots 4, timeout 0, mode
\* inet), a fetch returns the default for it, and it is not marked as
\* explicitly supplied: none is on a new input object.
C11Defaults ==
    /\ ffout.op = "none" => \A n \in OptionNames : ~inp[n].explicit
    /\ \A n \in OptionNames :
          ~inp[n].explicit =>
              /\ inp[n].value = DocumentedDefaults[n]
              /\ Fetched => ffout.obj[n] = DocumentedDefaults[n]

\* a fetch from an input given a name and nothing else
C11Witness ==
    /\ Fetched /\ ffout.obj.type = "FFSocket" /\ ffout.obj.name = "driver"
    /\ \A n \in OptionNames : ~inp[n].explicit
    /\ ffout.obj.port = 65535 /\ ffout.obj.mode = "inet"

Undeclared == {"bogus", "extra"}

\* C12: name is mandatory.  A parse that leaves name neither stored nor parsed
\* fails, with ValueError when every name of the node is declared, and a
\* fetch from an input whose name was never stored or parsed raises ValueError
\* and returns no force field.
C12NameMandatory ==
    ~inp.name.explicit =>
        /\ ffout.op = "parse" =>
              ffout.result = IF ffout.given \cap Undeclared # {} THEN "NameError"
                             ELSE "ValueError"
        /\ ffout.op = "fetch" =>
              ffout.result = "ValueError" /\ ffout.obj.type = "none"

\* a parse of a node with a port and no name
C12Witness ==
    /\ ffout.op = "parse" /\ ffout.result = "ValueError"
    /\ "name" \notin ffout.given /\ "port" \in ffout.given
    /\ inp.port.explicit /\ ~inp.name.explicit

\* C13: in one call of step() the reads of the potential and of the forces of
\* the unchanged configuration beads.q dispatch one evaluation in all when the
\* first of them finds the values stale, and none when it finds them valid: a
\* read that follows another with no write in between never dispatches
C13OneDispatch ==
    [][nsteps' # nsteps => forces'.n = (IF forces.valid THEN 0 ELSE 1)]_vars

C13Witness ==
    /\ nsteps = 2 /\ last.branch = "cg" /\ forces.n = 1
    /\ last.read_at = q_prev /\ ~forces.valid

\* C14: a read of potential or forces that follows a write of a configuration
\* returns values computed for the configuration written: each trial of a
\* mover returns the values of the trial configuration it assigned, the reads
\* of step() return the values of beads.q as the previous step left it, and
\* values held as valid are those of the present configuration
C14NoStaleRead ==
    /\ \A k \in DOMAIN last.trials :
          last.trials[k].computed = last.trials[k].written
    /\ last.branch # "none" =>
          last.read_at = (IF status = "error" THEN q ELSE q_prev)
    /\ forces.valid => forces.at = q
    /\ (dforces.valid /\ last.trials # <<>>) =>
          dforces.at = last.trials[Len(last.trials)].written

C14Witness ==
    /\ nsteps = 2 /\ last.branch = "sd" /\ Len(last.trials) = 2
    /\ last.trials[1].written # last.trials[2].written
    /\ last.trials[2].computed = TrialConf(q_prev, lm.d, last.trials[2].written.x)
    /\ q_prev # q_init /\ last.read_at = q_prev

(***************************************************************************)
(* Properties of the Connection Pool and of the Request Dispatcher         *)
(***************************************************************************)
Holders(i) == {c \in PoolCallers : caller[c].pc = "awaiting" /\ caller[c].conn = i}

Blocked(c) ==
    /\ caller[c].pc = "acquiring"
    /\ \A i \in Connections : conn[i] # "idle"

\* C15: the busy connections of a pool never outnumber its slots, a
\* connection is the exclusive handle of one caller and serves one Request
\* while it is busy and none otherwise, and a caller of acquire() that finds
\* no connection idle stays waiting
C15PoolBounded ==
    [][/\ Cardinality(Busy') <= pslots'
       /\ \A i \in Connections :
             /\ conn'[i] = "busy" => Cardinality(Holders(i)') = 1 /\ serving'[i] \in PoolKeys
             /\ conn'[i] # "busy" => Holders(i)' = {} /\ serving'[i] = ""
       /\ \A c \in PoolCallers : Blocked(c) => caller'[c] = caller[c]]_vars

C15Witness ==
    /\ pslots = 2 /\ Cardinality(Busy) = 2
    /\ \E c \in PoolCallers : Blocked(c) /\ caller[c].key \notin {serving[i] : i \in Busy}

\* C16: whatever the interleaving of the calls of evaluate, each content key
\* has at most one Request in flight and at most one on a connection; a call
\* whose key is in flight attaches to the pending Request and holds no
\* connection
C16Coalesced ==
    /\ \A k \in PoolKeys :
          /\ Cardinality({c \in PoolCallers : caller[c].key = k
                              /\ caller[c].pc \in {"acquiring", "awaiting"}}) <= 1
          /\ Cardinality({i \in Busy : serving[i] = k}) <= 1
    /\ \A c \in PoolCallers :
          caller[c].pc = "attached" =>
             /\ caller[c].conn = 0
             /\ caller[c].key \in inflight
             /\ \E o \in PoolCallers : /\ caller[o].key = caller[c].key
                                        /\ caller[o].pc \in {"acquiring", "awaiting"}

C16Witness ==
    /\ \E c, o \in PoolCallers :
          /\ caller[c].pc = "attached" /\ caller[o].pc = "awaiting"
          /\ caller[c].key = "a" /\ caller[o].key = "a"
    /\ \E i \in Connections : conn[i] = "idle"


(***************************************************************************)
(* Properties of Input.parse                                               *)
(***************************************************************************)
Positions(e) == {i \in DOMAIN ffout.events : ffout.events[i] = e}

Parsed == ffout.op = "parse"

AttribsGiven == ffout.given \cap {"name", "mode"}

AdaptAfterAttribsBeforeFields ==
    /\ Cardinality(Positions("adapt")) = 1
    /\ \A a \in AttribsGiven :
          \E i \in Positions(a) : \A j \in Positions("adapt") : i < j
    /\ \A f \in {"port", "slots", "latency", "extra"} :
          \A i \in Positions(f) : \A j \in Positions("adapt") : j < i

\* C17 as stated: every parse of a node calls adapt() exactly once, after all
\* the attributes of the node were parsed and before any field
C17AsStated == Parsed => AdaptAfterAttribsBeforeFields

\* C17: a parse of a node none of whose attribute names is undeclared calls
\* adapt() exactly once, after all the attributes of the node were parsed and
\* before any field; a parse that meets an undeclared attribute name does not
\* call adapt()
C17AdaptOnce ==
    Parsed => IF "bogus" \in ffout.given THEN Positions("adapt") = {}
              ELSE AdaptAfterAttribsBeforeFields

C17Witness ==
    /\ Parsed /\ {"name", "mode", "port", "slots"} \subseteq ffout.given
    /\ "bogus" \notin ffout.given
    /\ ffout.events = <<"name", "mode", "adapt", "port", "slots">>

\* C18: a parse of a node that holds an attribute or a tag name that is not
\* declared ends with NameError; otherwise a parse that leaves a mandatory
\* attribute or field neither supplied nor defaulted ends with ValueError;
\* a parse returns normally only when neither is the case, and "_text" is
\* no obstacle
C18ParseRaises ==
    Parsed =>
       ffout.result = (IF ffout.given \cap Undeclared # {} THEN "NameError"
                       ELSE IF ~inp.name.explicit THEN "ValueError"
                       ELSE "ok")

C18Witness ==
    /\ Parsed /\ ffout.result = "NameError"
    /\ {"name", "extra", "_text"} \subseteq ffout.given /\ "bogus" \notin ffout.given
    /\ "adapt" \in {ffout.events[i] : i \in DOMAIN ffout.events}

(***************************************************************************)
(* Properties of RestartEnsemble                                           *)
(***************************************************************************)
EnsFetched == ensout.op = "fetch"

Returned(T) == EnsFetched /\ ensout.result = "ok" /\ ensout.obj.type = T

TypeIs(T) == ens.type.value \in EnsembleOptions /\ Upper(ens.type.value) = T

Supplied ==
    [thermostat |-> ens.thermostat.explicit,
     barostat |-> ens.barostat.explicit /\ ens.barostat.thermostat_explicit,
     flexible |-> ens.barostat.kind # "rigid"]

\* what each type requires to have been supplied
Requirements(T) ==
    CASE T = "NVE" -> TRUE
      [] T = "NVT" -> Supplied.thermostat
      [] T = "NPT" -> Supplied.thermostat /\ Supplied.barostat
      [] T = "NST" -> Supplied.thermostat /\ Supplied.barostat /\ Supplied.flexible

RoundTripNames ==
    {"name", "latency", "pars", "pbc", "address", "port", "slots", "timeout", "mode"}

\* C20: a fetch that follows a store of an FFSocket returns an FFSocket with
\* the name, latency, pars, pbc, address, port, slots, timeout and mode of
\* the one stored; a store of an object of another type raises TypeError and
\* leaves the input object as it was
C20RoundTrip ==
    [][/\ (ffout.op = "store" /\ ffout.result = "ok" /\ ffout'.op = "fetch") =>
             /\ ffout'.result = "ok"
             /\ ffout'.obj.type = "FFSocket"
             /\ \A n \in RoundTripNames : ffout'.obj[n] = ffout.arg[n]
       /\ (ffout'.op = "store" /\ ffout'.arg.type # "FFSocket") =>
             /\ ffout'.result = "TypeError"
             /\ inp' = inp /\ inp_explicit' = inp_explicit
       /\ (ffout'.op = "store" /\ ffout'.arg.type = "FFSocket") =>
             ffout'.result = "ok"]_vars

C20Witness ==
    /\ Fetched /\ ffout.obj.name = "driver" /\ ~ffout.obj.pbc
    /\ ffout.obj.port = 31415 /\ ffout.obj.mode = "unix"
    /\ ffout.obj.pars = {<<"cutoff", "6">>}
    /\ \A n \in RoundTripNames : inp[n].explicit

(***************************************************************************)
(* Properties of InputFFSocket.fetch                                       *)
(***************************************************************************)
\* C21: every fetch that returns a force field gives it an InterfaceSocket
\* constructed in that call, one that no force field fetched before holds;
\* so no two fetched force fields share a socket interface, whatever their
\* names
C21FreshInterface ==
    [][(ffout'.op = "fetch" /\ ffout'.result = "ok") =>
          /\ ffout'.obj.interface \notin 0..interfaces
          /\ interfaces' = interfaces + 1
          /\ ffout'.obj.interface \in 1..interfaces']_vars

C21Witness ==
    /\ Fetched /\ interfaces = 2 /\ ffout.obj.interface = 2
    /\ ffout.obj.name = "driver"

(***************************************************************************)
(* Properties of the line search and of the displacement                   *)
(***************************************************************************)
\* x * x for a displacement x = c * sqrt(r)
RealSq(x) ==
    IF x = RealZero THEN RatZero
    ELSE LET t == CHOOSE t \in x : TRUE
         IN RatMul(RatMul(t[2], t[2]), <<t[1], 1>>)

\* the configuration is lm.x0 + lm.d * x for the displacement x >= 0 returned:
\* the move made is parallel to the unit vector lm.d, points the same way and
\* has the length x
LiveAtSearchedPoint ==
    LET delta == VSub(q, lm.x0)
    IN /\ NormSq(delta) = RealSq(last.x)
       /\ \A i, j \in Idx : delta.n[i] * lm.d.n[j] = delta.n[j] * lm.d.n[i]
       /\ \A i \in Idx : delta.n[i] = 0 \/ Sign(delta.n[i]) = Sign(lm.d.n[i])

\* C22 (as stated): after a steepest-descent or conjugate-gradient step the
\* configuration is x0 + d * x, with d the unit direction LineMover holds
\* after set_dir and x the displacement the line search returned, whatever
\* fixatoms is
C22LiveAtSearchedPoint ==
    (last.branch \in {"sd", "cg"} /\ ~HasNaN(last.dq1_unit)) => LiveAtSearchedPoint

\* the displacement that ends a step: along the direction used, by the
\* displacement found
DisplacedOnce == q' = Displace(q, UsedDirection', last'.x)

\* C23: a step that returns assigns the live configuration once, by the
\* displacement that ends it, and a step that raises leaves it as it was; the
\* trials of the line search and of the BFGS objective are written to the
\* movers' copy of the beads, which holds the last of them
C23TrialsOnCopy ==
    [][nsteps' # nsteps =>
          IF status' = "error"
          THEN q' = q /\ last'.live_writes = 0 /\ dbeads' = dbeads
          ELSE /\ last'.live_writes = 1
               /\ DisplacedOnce
               /\ last'.trials # <<>>
               /\ dbeads' = last'.trials[Len(last'.trials)].written]_vars

C23Witness ==
    /\ nsteps = 1 /\ last.branch = "sd" /\ Len(last.trials) = 2
    /\ last.live_writes = 1 /\ q # q_prev
    /\ dbeads = last.trials[2].written /\ dbeads # AtRest(q)
    /\ dbeads.x0 = q_prev /\ dbeads.x # last.x

(***************************************************************************)
(* Properties of the persisted state of GeopMover                          *)
(***************************************************************************)
\* C24 (as stated): a step of a mover constructed with the default
\* ls_options never changes the step estimate that another mover constructed
\* with the default ls_options sees: that one stays as constructed
C24StepPrivate == default_step = InitStep

\* the last step was taken where the force is exactly zero
ZeroForceStep == last.branch # "none" /\ IsZeroVec(last.gradf1)

\* the last step searched along a direction that the zeroing of the fixed
\* particles left zero
ZeroedDirectionStep == last.branch \in {"sd", "cg"} /\ IsZeroVec(last.dq1_unit)

\* C25 (as stated): a step taken where the force is exactly zero, or along a
\* direction that is zero once the components of the fixed particles are
\* zeroed, leaves the configuration as it was and free of NaN, in every
\* mode, and no direction of the step is the outcome of a division by a zero
\* norm
C25StationaryStep ==
    (ZeroForceStep \/ ZeroedDirectionStep) =>
        /\ ~HasNaN(q)
        /\ q = (IF status = "error" THEN q ELSE q_prev)
        /\ ~HasNaN(UsedDirection)
        /\ last.branch \in {"sd", "cg"} => ~HasNaN(lm.d)

\* C27: a step in bfgs mode leaves the previous force and the previous
\* direction of the conjugate gradient and the initial-step estimate of the
\* line search as they were; a step in sd or cg mode leaves the inverse
\* Hessian and the BFGS direction as they were and overwrites the previous
\* force with the force at the configuration of the step and the previous
\* direction with the direction of the step, steepest-descent steps included
C27ModeFrames ==
    [][nsteps' # nsteps =>
          IF mode = "bfgs"
          THEN cg_old_f' = cg_old_f /\ cg_old_d' = cg_old_d /\ ls_step' = ls_step
          ELSE /\ invhessian' = invhessian /\ bfgsm' = bfgsm
               /\ cg_old_f' = ForceAt(q)
               /\ cg_old_d' = last'.dq1]_vars

\* a second steepest-descent step has replaced the force and the direction
\* that the first one stored
C27Witness ==
    /\ mode = "sd" /\ last.branch = "sd" /\ last.step = 1
    /\ cg_old_f = ForceAt(q_prev) /\ cg_old_d = last.dq1
    /\ ~IsZeroVec(cg_old_f) /\ ~HasNaN(cg_old_f)
    /\ cg_old_f # ForceAt(q_init)
    /\ invhessian.dim = 0 /\ IsNone(bfgsm.d)

(***************************************************************************)
(* Properties of RestartEnsemble.store                                     *)
(***************************************************************************)
\* the ensemble a fetch returns has the type, the timestep, the temperature
\* and the fixcom flag of the ensemble e
SameEnsemble(out, e) ==
    /\ out.result = "ok"
    /\ out.obj.type = e.type
    /\ out.obj.dt = e.dt
    /\ out.obj.temp = e.temp
    /\ out.obj.fixcom = e.fixcom

\* C26 (as stated): a fetch that follows a store of an ensemble of one of the
\* four types NVE, NVT, NPT, NST returns an ensemble of the same type with
\* the timestep, the temperature and the fixcom flag of the one stored
C26RoundTrip ==
    [][(ensout.op = "store" /\ ensout'.op = "fetch") =>
          SameEnsemble(ensout', ensout.arg)]_vars
====
